---- MODULE Spec2Model ----
(***************************************************************************)
(* Model of byte_cli's `init_collection_config` wizard                     *)
(* (crates/byte_cli/src/endpoints/init_config.rs).                         *)
(*                                                                         *)
(* One session is one call of init_collection_config.  The function is a   *)
(* straight line of blocking prompts; every action below is one answer of  *)
(* the operator to the prompt the session is blocked on, followed by all   *)
(* the code that runs up to the next prompt (or to the function's return). *)
(*                                                                         *)
(* Texts are sequences of characters (one-character strings); a u64 is the *)
(* sequence of its decimal digits without leading zeros, so that the whole *)
(* range 0 .. 2^64-1 is represented exactly.                               *)
(***************************************************************************)
EXTENDS Integers, Sequences, FiniteSets, TLC

VARIABLES
    pc,               \* the prompt the session is blocked on, "done", or the panic
                      \* that ended it: "panicked" (unwrap), "parse_panicked" (expect)
    schema,           \* `schema`: the schema::Schema being built
    has_tags,         \* local `has_tags`
    tag_indices,      \* local `tag_indices` (None before the prompt is answered)
    tags,             \* local `tags` (Vec<String>)
    nft_field_indices,\* local `nft_field_indices` (None before the prompt is answered)
    nft_fields,       \* local `nft_fields` (Vec<String>)
    mint_strategies,  \* local `mint_strategies` (None before the prompt is answered)
    supply_index,     \* local `supply_index`
    supply_policy,    \* local `supply_policy`
    limit,            \* local `limit` (Option<u64>)
    royalty_index,    \* local `royalty_index`
    royalty_policy,   \* local `royalty_policy`
    fee,              \* local `fee` (Option<u64>)
    listings,         \* local `listings` (u64)
    admin_address,    \* local `admin_address`
    receiver_address, \* local `receiver_address`
    i,                \* loop variable of `for i in 0..listings`
    market_type,      \* local `market_type` of the current loop iteration
    prompt_no,        \* the sale number shown in the last market prompt (i + 1)
    input,            \* the String the last Input::interact() returned
    err,              \* the message of the last validator failure shown
    output            \* what init_collection_config returned to its caller

vars == <<pc, schema, has_tags, tag_indices, tags, nft_field_indices, nft_fields, mint_strategies,
          supply_index, supply_policy, limit,
          royalty_index, royalty_policy, fee, listings, admin_address,
          receiver_address, i, market_type, prompt_no, input, err, output>>

(***************************************************************************)
(* Bounds of the model.                                                    *)
(***************************************************************************)
\* the largest listing count the operator answers
MaxListings == 2
\* the largest number of tags ticked where map_indices is checked on its own
MaxTagSel == 2

(***************************************************************************)
(* Option<T>: None is the empty sequence, Some(v) the one-element one.     *)
(***************************************************************************)
None == <<>>
Some(v) == <<v>>
IsSome(o) == Len(o) = 1
Unwrap(o) == o[1]

(***************************************************************************)
(* Catalogs.                                                               *)
(***************************************************************************)
TAG_OPTIONS ==
    <<"Art", "ProfilePicture", "Collectible", "GameAsset", "TokenisedAsset",
      "Ticker", "DomainName", "Music", "Video", "Ticket", "License">>
FIELD_OPTIONS == <<"display", "url", "attributes">>
BEHAVIOUR_OPTIONS == <<"composable", "loose">>
SUPPLY_OPTIONS_swapped == <<"Limited", "Unlimited">>
SUPPLY_OPTIONS == <<"Unlimited", "Limited">>
MINTING_OPTIONS == <<"Launchpad", "Direct", "Airdrop">>
ROYALTY_OPTIONS == <<"Proportional", "Constant", "None">>
MARKET_OPTIONS == <<"FixedPrice", "DutchAuction">>

(***************************************************************************)
(* Texts.                                                                  *)
(***************************************************************************)
DigitChars == <<"0", "1", "2", "3", "4", "5", "6", "7", "8", "9">>
\* a character whose UTF-8 encoding takes two bytes
TwoByteChar == "U+00E9"

IsDigitChar(c) == \E d \in 1..10 : DigitChars[d] = c
DigitOf(c) == (CHOOSE d \in 1..10 : DigitChars[d] = c) - 1

\* String::as_bytes().len()
RECURSIVE ByteLen(_)
ByteLen(s) ==
    IF s = <<>> THEN 0
    ELSE (IF Head(s) = TwoByteChar THEN 2 ELSE 1) + ByteLen(Tail(s))

Repeat(c, n) == [k \in 1..n |-> c]

\* u64::MAX = 18446744073709551615
U64_MAX == <<1,8,4,4,6,7,4,4,0,7,3,7,0,9,5,5,1,6,1,5>>

\* lexicographic comparison of two digit sequences of the same length
RECURSIVE DigitsLeq(_, _)
DigitsLeq(a, b) ==
    IF a = <<>> THEN TRUE
    ELSE IF Head(a) # Head(b) THEN Head(a) < Head(b)
    ELSE DigitsLeq(Tail(a), Tail(b))

\* a <= b for two u64 values (digit sequences without leading zeros)
U64Leq(a, b) == Len(a) < Len(b) \/ (Len(a) = Len(b) /\ DigitsLeq(a, b))

RECURSIVE StripZeros(_)
StripZeros(d) ==
    IF Len(d) > 1 /\ Head(d) = 0 THEN StripZeros(Tail(d)) ELSE d

\* str::parse::<u64>(): an optional leading "+", then one or more decimal
\* digits, the value at most u64::MAX.  [ok, value].
ParseErr == [ok |-> FALSE, value |-> <<>>]
ParseU64(s) ==
    LET body == IF s # <<>> /\ Head(s) = "+" THEN Tail(s) ELSE s IN
    IF body = <<>> THEN ParseErr
    ELSE IF \E k \in 1..Len(body) : ~IsDigitChar(body[k]) THEN ParseErr
    ELSE LET v == StripZeros([k \in 1..Len(body) |-> DigitOf(body[k])]) IN
         IF U64Leq(v, U64_MAX) THEN [ok |-> TRUE, value |-> v] ELSE ParseErr

\* the value of a u64 as a number of the model, for the small values the
\* loop counts with
RECURSIVE U64ToNat(_)
U64ToNat(v) ==
    IF v = <<>> THEN 0 ELSE 10 * U64ToNat(SubSeq(v, 1, Len(v) - 1)) + v[Len(v)]

\* the decimal text of a one-digit number
DecText(n) == <<DigitChars[n + 1]>>

(***************************************************************************)
(* Validators: Ok(()) is None, Err(message) is Some(message).              *)
(***************************************************************************)
string_validator(in) == None

\* the length counted in characters, not in bytes
address_validator_chars(in) ==
    IF Len(in) # 20
    THEN Some(<<"Couldn't parse input of '", in, "' to an address.">>)
    ELSE None

address_validator(in) ==
    IF ByteLen(in) # 20
    THEN Some(<<"Couldn't parse input of '", in, "' to an address.">>)
    ELSE None

\* only the empty text rejected
number_validator_nonEmpty(in) ==
    IF in = <<>>
    THEN Some(<<"Couldn't parse input of '", in, "' to a number.">>)
    ELSE None

number_validator(in) ==
    IF ~ParseU64(in).ok
    THEN Some(<<"Couldn't parse input of '", in, "' to a number.">>)
    ELSE None

(***************************************************************************)
(* The gutenberg library: schema::Schema and the typed constructors.       *)
(* A Result is [ok, value]; a field of the schema that was never written   *)
(* is Unset, a written one is Some(value).                                 *)
(***************************************************************************)
Unset == None
Ok(v) == [ok |-> TRUE, value |-> v]
Err == [ok |-> FALSE, value |-> <<>>]

Range(s) == {s[k] : k \in 1..Len(s)}

SchemaFields ==
    <<"name", "description", "symbol", "tags", "url", "fields", "behaviours",
      "supply_policy", "mint_strategy", "royalties", "listings">>

\* schema::Schema::new()
Schema_new ==
    [name |-> Unset, description |-> Unset, symbol |-> Unset, tags |-> Unset,
     url |-> Unset, fields |-> Unset, behaviours |-> Unset,
     supply_policy |-> Unset, mint_strategy |-> Unset, royalties |-> Unset,
     listings |-> <<>>]

\* Collection::set_name, set_description, set_symbol, set_url
set_name(sch, v) == [sch EXCEPT !.name = Some(v)]
set_description(sch, v) == [sch EXCEPT !.description = Some(v)]
set_symbol(sch, v) == [sch EXCEPT !.symbol = Some(v)]
set_url(sch, v) == [sch EXCEPT !.url = Some(v)]

\* Collection::set_tags: replaces the whole tag set; fails on a string that
\* is not in the Tag catalog
set_tags(sch, selected) ==
    IF Range(selected) \subseteq Range(TAG_OPTIONS)
    THEN Ok([sch EXCEPT !.tags = Some(Range(selected))])
    ELSE Err

\* nft::Fields::new_from
Fields_new_from(selected) ==
    IF Range(selected) \subseteq Range(FIELD_OPTIONS) \cup {"tags"}
    THEN Ok(Range(selected))
    ELSE Err

\* nft::Behaviours::new_from
Behaviours_new_from(selected) ==
    IF Range(selected) \subseteq Range(BEHAVIOUR_OPTIONS)
    THEN Ok(Range(selected))
    ELSE Err

\* nft::SupplyPolicy::new_from
SupplyPolicy_new_from(kind, maybe_limit) ==
    IF kind = "Unlimited" /\ ~IsSome(maybe_limit)
    THEN Ok([kind |-> "Unlimited", limit |-> None])
    ELSE IF kind = "Limited" /\ IsSome(maybe_limit)
    THEN Ok([kind |-> "Limited", limit |-> maybe_limit])
    ELSE Err

\* nft::MintStrategy::new_from
MintStrategy_new_from(selected) ==
    IF selected # <<>> /\ Range(selected) \subseteq Range(MINTING_OPTIONS)
    THEN Ok(Range(selected))
    ELSE Err

\* Royalties::new_from
Royalties_new_from(kind, maybe_fee) ==
    IF kind = "None" /\ ~IsSome(maybe_fee)
    THEN Ok([kind |-> "None", fee |-> None])
    ELSE IF kind \in {"Proportional", "Constant"} /\ IsSome(maybe_fee)
    THEN Ok([kind |-> kind, fee |-> maybe_fee])
    ELSE Err

(***************************************************************************)
(* The prompt boundary: what the operator answers.                         *)
(***************************************************************************)
\* the indices a MultiSelect returns: the ticked items, in catalog order
RECURSIVE SortedSeq(_)
SortedSeq(S) ==
    IF S = {} THEN <<>>
    ELSE LET m == CHOOSE x \in S : \A y \in S : x <= y
         IN <<m>> \o SortedSeq(S \ {m})

Indices(arr) == 0..(Len(arr) - 1)
MultiSelections(arr) == {SortedSeq(S) : S \in SUBSET Indices(arr)}

\* The answers the operator gives in the sessions explored.  The NFT field
\* prompt gets every selection; the other prompts get the selections and
\* texts that differ in what the code does with them.
TagSelections == {<<>>, <<0, 10>>}
FieldSelections == MultiSelections(FIELD_OPTIONS)
BehaviourSelections == {<<>>, <<0, 1>>}
MintSelections == {<<>>, <<1>>, <<0, 1, 2>>}

NameAnswers == {<<>>, <<"A", "p", "e", "s">>}
DescriptionAnswers == {<<>>}
SymbolAnswers == {<<>>, <<"A", "P", "E">>}
UrlAnswers == {<<"u">>}
U64MaxText == <<"1","8","4","4","6","7","4","4","0","7","3","7","0","9","5","5","1","6","1","5">>
U64OverText == <<"1","8","4","4","6","7","4","4","0","7","3","7","0","9","5","5","1","6","1","6">>
LimitAnswers ==
    {<<>>, <<"+">>, <<"-", "1">>, <<"a">>, <<"1", ".", "5">>, U64OverText,
     <<"0">>, <<"+", "7">>, <<"0", "0", "7">>, U64MaxText}
FeeAnswers == {<<"-", "1">>, <<"2", "5", "0">>}
CountAnswers == {<<"a">>} \cup {DecText(n) : n \in 0..MaxListings}
AddressAnswers ==
    {Repeat("a", 19), Repeat("a", 20), Repeat(TwoByteChar, 10),
     Repeat(TwoByteChar, 20)}

\* the catalog read at the position in `indices`, not at the index
map_indices_byPosition(indices, arr) == [k \in 1..Len(indices) |-> arr[k]]

\* map_indices
map_indices(indices, arr) == [k \in 1..Len(indices) |-> arr[indices[k] + 1]]

(***************************************************************************)
(* init_collection_config.                                                 *)
(***************************************************************************)
tag_locals == <<tag_indices, tags>>
nft_locals == <<nft_field_indices, nft_fields, mint_strategies>>
supply_locals == <<supply_index, supply_policy, limit>>
royalty_locals == <<royalty_index, royalty_policy, fee>>
listing_locals == <<listings, admin_address, receiver_address>>
loop_locals == <<i, market_type, prompt_no>>

Init ==
    /\ pc = "name"
    /\ schema = Schema_new
    /\ has_tags = FALSE
    /\ tag_indices = None
    /\ tags = <<>>
    /\ nft_field_indices = None
    /\ nft_fields = <<>>
    /\ mint_strategies = None
    /\ supply_index = -1
    /\ supply_policy = ""
    /\ limit = None
    /\ royalty_index = -1
    /\ royalty_policy = ""
    /\ fee = None
    /\ listings = <<>>
    /\ admin_address = <<>>
    /\ receiver_address = <<>>
    /\ i = 0
    /\ market_type = -1
    /\ prompt_no = 0
    /\ input = None
    /\ err = None
    /\ output = <<>>

\* Input::validate_with(..).interact() shows the validator's message and asks
\* again: nothing but the message shown changes
Reprompt(msg) ==
    /\ err' = msg
    /\ UNCHANGED <<pc, schema, has_tags, tag_locals, nft_locals, supply_locals,
                   royalty_locals, listing_locals, loop_locals, input, output>>

\* Input::interact() returned `text`
Returned(text) == input' = Some(text) /\ err' = None
\* Confirm, Select or MultiSelect returned
Chosen == input' = None /\ err' = None

\* a panic of unwrap() ends the session
Panic ==
    /\ pc' = "panicked"
    /\ Chosen
    /\ UNCHANGED <<schema, has_tags, tag_locals, nft_locals, supply_locals, royalty_locals,
                   listing_locals, loop_locals, output>>

AskName ==
    /\ pc = "name"
    /\ \E text \in NameAnswers :
         IF IsSome(string_validator(text)) THEN Reprompt(string_validator(text))
         ELSE /\ schema' = set_name(schema, text)
              /\ pc' = "description"
              /\ Returned(text)
              /\ UNCHANGED <<has_tags, tag_locals, nft_locals, supply_locals, royalty_locals,
                             listing_locals, loop_locals, output>>

AskDescription ==
    /\ pc = "description"
    /\ \E text \in DescriptionAnswers :
         IF IsSome(string_validator(text)) THEN Reprompt(string_validator(text))
         ELSE /\ schema' = set_description(schema, text)
              /\ pc' = "symbol"
              /\ Returned(text)
              /\ UNCHANGED <<has_tags, tag_locals, nft_locals, supply_locals, royalty_locals,
                             listing_locals, loop_locals, output>>

\* set_name called where set_symbol is meant
AskSymbol_setsName ==
    /\ pc = "symbol"
    /\ \E text \in SymbolAnswers :
         IF IsSome(string_validator(text)) THEN Reprompt(string_validator(text))
         ELSE /\ schema' = set_name(schema, text)
              /\ pc' = "has_tags"
              /\ Returned(text)
              /\ UNCHANGED <<has_tags, tag_locals, nft_locals, supply_locals, royalty_locals,
                             listing_locals, loop_locals, output>>

AskSymbol ==
    /\ pc = "symbol"
    /\ \E text \in SymbolAnswers :
         IF IsSome(string_validator(text)) THEN Reprompt(string_validator(text))
         ELSE /\ schema' = set_symbol(schema, text)
              /\ pc' = "has_tags"
              /\ Returned(text)
              /\ UNCHANGED <<has_tags, tag_locals, nft_locals, supply_locals, royalty_locals,
                             listing_locals, loop_locals, output>>

AskHasTags ==
    /\ pc = "has_tags"
    /\ \E answer \in BOOLEAN :
         /\ has_tags' = answer
         /\ pc' = IF answer THEN "tags" ELSE "has_url"
    /\ Chosen
    /\ UNCHANGED <<schema, tag_locals, nft_locals, supply_locals, royalty_locals,
                   listing_locals, loop_locals, output>>

\* the tag multi-selection returned `indices`: map_indices, set_tags, and
\* the URL confirmation next
TagsChosen(indices) ==
    LET mapped == map_indices(indices, TAG_OPTIONS)
        res == set_tags(schema, mapped)
    IN /\ tag_indices' = Some(indices)
       /\ tags' = mapped
       /\ IF ~res.ok
          THEN pc' = "panicked" /\ UNCHANGED schema
          ELSE schema' = res.value /\ pc' = "has_url"
       /\ Chosen
       /\ UNCHANGED <<has_tags, nft_locals, supply_locals, royalty_locals,
                      listing_locals, loop_locals, output>>

AskTags ==
    /\ pc = "tags"
    /\ \E indices \in TagSelections : TagsChosen(indices)

AskHasUrl ==
    /\ pc = "has_url"
    /\ \E has_url \in BOOLEAN :
         pc' = IF has_url THEN "url" ELSE "nft_fields"
    /\ Chosen
    /\ UNCHANGED <<schema, has_tags, tag_locals, nft_locals, supply_locals, royalty_locals,
                   listing_locals, loop_locals, output>>

AskUrl ==
    /\ pc = "url"
    /\ \E text \in UrlAnswers :
         IF IsSome(string_validator(text)) THEN Reprompt(string_validator(text))
         ELSE /\ schema' = set_url(schema, text)
              /\ pc' = "nft_fields"
              /\ Returned(text)
              /\ UNCHANGED <<has_tags, tag_locals, nft_locals, supply_locals, royalty_locals,
                             listing_locals, loop_locals, output>>

\* the push of "tags" left out
FieldsWithTags_neverPushes(selected, tagged) == selected

\* the push of "tags" under the negated condition
FieldsWithTags_inverted(selected, tagged) ==
    IF ~tagged THEN Append(selected, "tags") ELSE selected

\* the NFT fields handed to nft::Fields::new_from
FieldsWithTags(selected, tagged) ==
    IF tagged THEN Append(selected, "tags") ELSE selected

\* "tags" pushed only when the tag selection was not empty
AskNftFields_tagsNonEmpty ==
    /\ pc = "nft_fields"
    /\ \E indices \in FieldSelections :
         LET selected == map_indices(indices, FIELD_OPTIONS)
             all == FieldsWithTags(selected, has_tags /\ tags # <<>>)
             res == Fields_new_from(all)
         IN /\ nft_field_indices' = Some(indices)
            /\ nft_fields' = all
            /\ IF ~res.ok
               THEN pc' = "panicked" /\ UNCHANGED schema
               ELSE /\ schema' = [schema EXCEPT !.fields = Some(res.value)]
                    /\ pc' = "nft_behaviours"
            /\ Chosen
            /\ UNCHANGED <<has_tags, tag_locals, mint_strategies, supply_locals,
                           royalty_locals, listing_locals, loop_locals, output>>

AskNftFields ==
    /\ pc = "nft_fields"
    /\ \E indices \in FieldSelections :
         LET selected == map_indices(indices, FIELD_OPTIONS)
             all == FieldsWithTags(selected, has_tags)
             res == Fields_new_from(all)
         IN /\ nft_field_indices' = Some(indices)
            /\ nft_fields' = all
            /\ IF ~res.ok
               THEN pc' = "panicked" /\ UNCHANGED schema
               ELSE /\ schema' = [schema EXCEPT !.fields = Some(res.value)]
                    /\ pc' = "nft_behaviours"
            /\ Chosen
            /\ UNCHANGED <<has_tags, tag_locals, mint_strategies, supply_locals,
                           royalty_locals, listing_locals, loop_locals, output>>

AskNftBehaviours ==
    /\ pc = "nft_behaviours"
    /\ \E nft_behaviour_indices \in BehaviourSelections :
         LET res == Behaviours_new_from(
                        map_indices(nft_behaviour_indices, BEHAVIOUR_OPTIONS))
         IN IF ~res.ok THEN Panic
            ELSE /\ schema' = [schema EXCEPT !.behaviours = Some(res.value)]
                 /\ pc' = "supply"
                 /\ Chosen
                 /\ UNCHANGED <<has_tags, tag_locals, nft_locals, supply_locals,
                                royalty_locals, listing_locals, loop_locals,
                                output>>

\* schema.nft.supply_policy = nft::SupplyPolicy::new_from(..).unwrap(), then
\* the minting prompt
CommitSupplyPolicy(policy, maybe_limit) ==
    LET res == SupplyPolicy_new_from(policy, maybe_limit)
    IN IF ~res.ok
       THEN /\ pc' = "panicked"
            /\ UNCHANGED schema
       ELSE /\ schema' = [schema EXCEPT !.supply_policy = Some(res.value)]
            /\ pc' = "mint"

AskSupply ==
    /\ pc = "supply"
    /\ \E index \in Indices(SUPPLY_OPTIONS) :
         LET policy == SUPPLY_OPTIONS[index + 1]
         IN /\ supply_index' = index
            /\ supply_policy' = policy
            /\ limit' = None
            /\ IF policy = "Limited"
               THEN pc' = "supply_limit" /\ UNCHANGED schema
               ELSE CommitSupplyPolicy(policy, None)
    /\ Chosen
    /\ UNCHANGED <<has_tags, tag_locals, nft_locals, royalty_locals, listing_locals,
                   loop_locals, output>>

AskSupplyLimit ==
    /\ pc = "supply_limit"
    /\ \E text \in LimitAnswers :
         IF IsSome(number_validator(text)) THEN Reprompt(number_validator(text))
         ELSE LET parsed == ParseU64(text)
              IN /\ Returned(text)
                 /\ IF ~parsed.ok
                    THEN /\ pc' = "parse_panicked"
                         /\ UNCHANGED <<schema, limit>>
                    ELSE /\ limit' = Some(parsed.value)
                         /\ CommitSupplyPolicy(supply_policy, Some(parsed.value))
                 /\ UNCHANGED <<has_tags, tag_locals, nft_locals, supply_index,
                                supply_policy, royalty_locals, listing_locals,
                                loop_locals, output>>

\* the result of nft::MintStrategy::new_from taken without unwrap(): a failed
\* construction leaves the default, empty strategy and the session goes on
AskMintStrategy_noUnwrap ==
    /\ pc = "mint"
    /\ \E mint_strategy_indices \in MintSelections :
         LET selected == map_indices(mint_strategy_indices, MINTING_OPTIONS)
             res == MintStrategy_new_from(selected)
         IN /\ mint_strategies' = Some(selected)
            /\ schema' = [schema EXCEPT
                              !.mint_strategy = Some(IF res.ok THEN res.value ELSE {})]
            /\ pc' = "royalty"
    /\ Chosen
    /\ UNCHANGED <<has_tags, tag_locals, nft_field_indices, nft_fields, supply_locals,
                   royalty_locals, listing_locals, loop_locals, output>>

\* the failure of nft::MintStrategy::new_from ignored: nothing is assigned and
\* the session goes on to the royalty prompt
AskMintStrategy_ignoresError ==
    /\ pc = "mint"
    /\ \E mint_strategy_indices \in MintSelections :
         LET selected == map_indices(mint_strategy_indices, MINTING_OPTIONS)
             res == MintStrategy_new_from(selected)
         IN /\ mint_strategies' = Some(selected)
            /\ schema' = IF res.ok
                         THEN [schema EXCEPT !.mint_strategy = Some(res.value)]
                         ELSE schema
            /\ pc' = "royalty"
    /\ Chosen
    /\ UNCHANGED <<has_tags, tag_locals, nft_field_indices, nft_fields,
                   supply_locals, royalty_locals, listing_locals, loop_locals,
                   output>>

AskMintStrategy ==
    /\ pc = "mint"
    /\ \E mint_strategy_indices \in MintSelections :
         LET selected == map_indices(mint_strategy_indices, MINTING_OPTIONS)
             res == MintStrategy_new_from(selected)
         IN /\ mint_strategies' = Some(selected)
            /\ IF ~res.ok
               THEN pc' = "panicked" /\ UNCHANGED schema
               ELSE /\ schema' = [schema EXCEPT !.mint_strategy = Some(res.value)]
                    /\ pc' = "royalty"
    /\ Chosen
    /\ UNCHANGED <<has_tags, tag_locals, nft_field_indices, nft_fields, supply_locals,
                   royalty_locals, listing_locals, loop_locals, output>>

\* schema.royalties = Royalties::new_from(..).unwrap(), then the listing
\* count prompt
CommitRoyalties(policy, maybe_fee) ==
    LET res == Royalties_new_from(policy, maybe_fee)
    IN IF ~res.ok
       THEN /\ pc' = "panicked"
            /\ UNCHANGED schema
       ELSE /\ schema' = [schema EXCEPT !.royalties = Some(res.value)]
            /\ pc' = "listings"

AskRoyalty ==
    /\ pc = "royalty"
    /\ \E index \in Indices(ROYALTY_OPTIONS) :
         LET policy == ROYALTY_OPTIONS[index + 1]
         IN /\ royalty_index' = index
            /\ royalty_policy' = policy
            /\ fee' = None
            /\ IF policy = "Proportional"
               THEN pc' = "royalty_fee" /\ UNCHANGED schema
               ELSE IF policy = "Constant"
               THEN pc' = "royalty_commission" /\ UNCHANGED schema
               ELSE CommitRoyalties(policy, None)
    /\ Chosen
    /\ UNCHANGED <<has_tags, tag_locals, nft_locals, supply_locals, listing_locals,
                   loop_locals, output>>

\* the parsed answer dropped and the fee defaulted to 0
FeeAnswered_zero(text) ==
    IF IsSome(number_validator(text)) THEN Reprompt(number_validator(text))
    ELSE /\ Returned(text)
         /\ fee' = Some(<<0>>)
         /\ CommitRoyalties(royalty_policy, Some(<<0>>))
         /\ UNCHANGED <<has_tags, tag_locals, nft_locals, supply_locals, royalty_index,
                        royalty_policy, listing_locals, loop_locals, output>>

\* the answer to either fee prompt: parsed, stored in `fee` and committed
FeeAnswered(text) ==
    IF IsSome(number_validator(text)) THEN Reprompt(number_validator(text))
    ELSE LET parsed == ParseU64(text)
         IN /\ Returned(text)
            /\ IF ~parsed.ok
               THEN /\ pc' = "parse_panicked"
                    /\ UNCHANGED <<schema, fee>>
               ELSE /\ fee' = Some(parsed.value)
                    /\ CommitRoyalties(royalty_policy, Some(parsed.value))
            /\ UNCHANGED <<has_tags, tag_locals, nft_locals, supply_locals, royalty_index,
                           royalty_policy, listing_locals, loop_locals, output>>

AskRoyaltyFee ==
    /\ pc = "royalty_fee"
    /\ \E text \in FeeAnswers : FeeAnswered(text)

AskRoyaltyCommission ==
    /\ pc = "royalty_commission"
    /\ \E text \in FeeAnswers : FeeAnswered(text)

\* the address prompts left out when no listing is declared
AskListings_skipsAddresses ==
    /\ pc = "listings"
    /\ \E text \in CountAnswers :
         IF IsSome(number_validator(text)) THEN Reprompt(number_validator(text))
         ELSE LET parsed == ParseU64(text)
              IN /\ Returned(text)
                 /\ IF ~parsed.ok
                    THEN pc' = "parse_panicked" /\ UNCHANGED listings
                    ELSE /\ listings' = parsed.value
                         /\ pc' = IF parsed.value = <<0>> THEN "done" ELSE "admin"
                 /\ UNCHANGED <<schema, has_tags, tag_locals, nft_locals, supply_locals,
                                royalty_locals, admin_address, receiver_address,
                                loop_locals, output>>

AskListings ==
    /\ pc = "listings"
    /\ \E text \in CountAnswers :
         IF IsSome(number_validator(text)) THEN Reprompt(number_validator(text))
         ELSE LET parsed == ParseU64(text)
              IN /\ Returned(text)
                 /\ IF ~parsed.ok
                    THEN pc' = "parse_panicked" /\ UNCHANGED listings
                    ELSE pc' = "admin" /\ listings' = parsed.value
                 /\ UNCHANGED <<schema, has_tags, tag_locals, nft_locals, supply_locals,
                                royalty_locals, admin_address, receiver_address,
                                loop_locals, output>>

\* the prompt built without validate_with: whatever is typed is returned
AskAdminAddress_noValidator ==
    /\ pc = "admin"
    /\ \E text \in AddressAnswers :
         /\ admin_address' = text
         /\ pc' = "receiver"
         /\ Returned(text)
         /\ UNCHANGED <<schema, has_tags, tag_locals, nft_locals, supply_locals,
                        royalty_locals, listings, receiver_address,
                        loop_locals, output>>

AskAdminAddress ==
    /\ pc = "admin"
    /\ \E text \in AddressAnswers :
         IF IsSome(address_validator(text)) THEN Reprompt(address_validator(text))
         ELSE /\ admin_address' = text
              /\ pc' = "receiver"
              /\ Returned(text)
              /\ UNCHANGED <<schema, has_tags, tag_locals, nft_locals, supply_locals,
                             royalty_locals, listings, receiver_address,
                             loop_locals, output>>

\* the range taken with its upper end, as in 0..=listings
InRange_inclusive(k, count) == k <= U64ToNat(count)

\* `for i in 0..listings`: is there an iteration number k
InRange(k, count) == k < U64ToNat(count)

\* the body of the loop: what an iteration with the selection `market` leaves
\* in the schema
LoopBody(sch, admin, receiver, market) == sch

\* the head of the loop with i = k: the next market prompt, or the return of
\* the function (which returns (), the schema is dropped)
LoopHead(k, count) ==
    IF InRange(k, count)
    THEN /\ pc' = "market"
         /\ prompt_no' = k + 1
         /\ UNCHANGED output
    ELSE /\ pc' = "done"
         /\ UNCHANGED <<prompt_no, output>>

AskReceiverAddress ==
    /\ pc = "receiver"
    /\ \E text \in AddressAnswers :
         IF IsSome(address_validator(text)) THEN Reprompt(address_validator(text))
         ELSE /\ receiver_address' = text
              /\ Returned(text)
              /\ i' = 0
              /\ LoopHead(0, listings)
              /\ UNCHANGED <<schema, has_tags, tag_locals, nft_locals, supply_locals,
                             royalty_locals, listings, admin_address,
                             market_type>>

AskMarket ==
    /\ pc = "market"
    /\ \E index \in Indices(MARKET_OPTIONS) :
         /\ market_type' = index
         /\ schema' = LoopBody(schema, admin_address, receiver_address,
                               MARKET_OPTIONS[index + 1])
    /\ i' = i + 1
    /\ LoopHead(i + 1, listings)
    /\ Chosen
    /\ UNCHANGED <<has_tags, tag_locals, nft_locals, supply_locals, royalty_locals,
                   listing_locals>>

Next ==
    \/ AskName
    \/ AskDescription
    \/ AskSymbol
    \/ AskHasTags
    \/ AskTags
    \/ AskHasUrl
    \/ AskUrl
    \/ AskNftFields
    \/ AskNftBehaviours
    \/ AskSupply
    \/ AskSupplyLimit
    \/ AskMintStrategy
    \/ AskRoyalty
    \/ AskRoyaltyFee
    \/ AskRoyaltyCommission
    \/ AskListings
    \/ AskAdminAddress
    \/ AskReceiverAddress
    \/ AskMarket

Spec == Init /\ [][Next]_vars

(***************************************************************************)
(* map_indices on its own: a session that has reached the tag               *)
(* multi-selection, answered with any duplicate-free vector of at most     *)
(* MaxTagSel indices into TAG_OPTIONS, in any order.                       *)
(***************************************************************************)
WideTagSelections ==
    {sel \in UNION {[1..n -> Indices(TAG_OPTIONS)] : n \in 0..MaxTagSel} :
        \A j, k \in 1..Len(sel) : j # k => sel[j] # sel[k]}

InitMap ==
    /\ pc = "tags"
    /\ schema = set_symbol(set_description(set_name(Schema_new,
                     <<"A", "p", "e", "s">>), <<>>), <<"A", "P", "E">>)
    /\ has_tags = TRUE
    /\ tag_indices = None
    /\ tags = <<>>
    /\ nft_field_indices = None
    /\ nft_fields = <<>>
    /\ mint_strategies = None
    /\ supply_index = -1
    /\ supply_policy = ""
    /\ limit = None
    /\ royalty_index = -1
    /\ royalty_policy = ""
    /\ fee = None
    /\ listings = <<>>
    /\ admin_address = <<>>
    /\ receiver_address = <<>>
    /\ i = 0
    /\ market_type = -1
    /\ prompt_no = 0
    /\ input = None
    /\ err = None
    /\ output = <<>>

AskTagsAny ==
    /\ pc = "tags"
    /\ \E indices \in WideTagSelections : TagsChosen(indices)

NextMap == AskTagsAny

SpecMap == InitMap /\ [][NextMap]_vars

(***************************************************************************)
(* Properties.                                                             *)
(***************************************************************************)
\* the session ran to completion: the function returned
Completed == pc = "done"

\* C1: in every session that runs to completion with declared listing count
\* N, schema.listings has exactly N records when the listings loop has ended.
C1_ListingsLenIsCount ==
    Completed => Len(schema.listings) = U64ToNat(listings)

\* the record the listings loop is said to append in an iteration
ListingOf(admin, receiver, index) ==
    [admin |-> admin, receiver |-> receiver, market |-> MARKET_OPTIONS[index + 1]]

\* C2: once iteration number i of the listings loop has run (i iterations are
\* over), the i-th record of schema.listings is the Listing with the one
\* administrator/receiver pair collected before the loop and the market
\* primitive selected in that iteration.
C2_IterationAppendsListing ==
    (pc \in {"market", "done"} /\ i >= 1) =>
        /\ Len(schema.listings) >= i
        /\ schema.listings[i] =
               ListingOf(admin_address, receiver_address, market_type)

C4_TagsSetImpliesTagsField ==
    (IsSome(schema.tags) /\ IsSome(schema.fields)) =>
        "tags" \in Unwrap(schema.fields)

\* C4's case: tags were set, the operator ticked only "display", and the
\* committed set is {"display", "tags"}
C4_Witness ==
    /\ IsSome(schema.tags)
    /\ nft_field_indices = Some(<<0>>)
    /\ schema.fields = Some({"display", "tags"})

\* C5: the royalties value committed to the schema carries a fee if and only
\* if the selected policy is Proportional or Constant, the fee stored is the
\* number the operator typed, and a Proportional or Constant policy without
\* a fee fails construction (it is never given a fee of 0).
C5_RoyaltiesFeeIffPolicy ==
    /\ IsSome(schema.royalties) =>
         LET r == Unwrap(schema.royalties)
         IN /\ royalty_index = 0 => r.kind = "Proportional"
            /\ royalty_index = 1 => r.kind = "Constant"
            /\ royalty_index = 2 => r.kind = "None"
            /\ IsSome(r.fee) <=> r.kind \in {"Proportional", "Constant"}
            /\ (pc = "listings" /\ IsSome(r.fee)) =>
                   /\ IsSome(input)
                   /\ ParseU64(Unwrap(input)).ok
                   /\ ParseU64(Unwrap(input)).value = Unwrap(r.fee)
    /\ \A kind \in {"Proportional", "Constant"} :
         ~Royalties_new_from(kind, None).ok

\* C5's case: the Constant policy with the fee text "250" typed, committed as
\* Constant with fee 250
C5_Witness ==
    /\ pc = "listings"
    /\ royalty_index = 1
    /\ input = Some(<<"2", "5", "0">>)
    /\ schema.royalties = Some([kind |-> "Constant", fee |-> Some(<<2, 5, 0>>)])

\* C6: the supply policy committed is Unlimited without a limit when the
\* operator selects "Unlimited" and Limited with exactly the limit typed when
\* the operator selects "Limited"; Limited without a limit and Unlimited with
\* one fail construction and are not committed.
C6_SupplyPolicyMatchesKind ==
    /\ IsSome(schema.supply_policy) =>
         LET sp == Unwrap(schema.supply_policy)
         IN /\ supply_index = 0 => sp = [kind |-> "Unlimited", limit |-> None]
            /\ supply_index = 1 =>
                   /\ sp.kind = "Limited"
                   /\ IsSome(sp.limit)
                   /\ pc = "mint" =>
                          /\ IsSome(input)
                          /\ ParseU64(Unwrap(input)).ok
                          /\ ParseU64(Unwrap(input)).value = Unwrap(sp.limit)
            /\ sp.kind = "Limited" <=> IsSome(sp.limit)
    /\ ~SupplyPolicy_new_from("Limited", None).ok
    /\ \A v \in {<<0>>, <<7>>, U64_MAX} :
         ~SupplyPolicy_new_from("Unlimited", Some(v)).ok

\* C6's case: "Limited" selected and the limit text "+7" typed, committed as
\* Limited with limit 7
C6_Witness ==
    /\ pc = "mint"
    /\ supply_index = 1
    /\ input = Some(<<"+", "7">>)
    /\ schema.supply_policy = Some([kind |-> "Limited", limit |-> Some(<<7>>)])

\* C7: whenever the committed supply policy is Limited, its limit is a
\* positive integer (at least 1).
C7_LimitedLimitPositive ==
    (IsSome(schema.supply_policy)
        /\ Unwrap(schema.supply_policy).kind = "Limited") =>
        Unwrap(Unwrap(schema.supply_policy).limit) # <<0>>

\* C8: the mint strategy committed is a non-empty subset of {Launchpad,
\* Direct, Airdrop}; a session in which the operator ticks no minting
\* strategy ends in a constraint violation, commits no mint strategy and
\* does not reach the royalty step.
C8_MintStrategyNonEmpty ==
    /\ IsSome(schema.mint_strategy) =>
         /\ Unwrap(schema.mint_strategy) # {}
         /\ Unwrap(schema.mint_strategy) \subseteq {"Launchpad", "Direct", "Airdrop"}
    /\ mint_strategies = Some(<<>>) =>
         /\ pc = "panicked"
         /\ schema.mint_strategy = Unset
         /\ schema.royalties = Unset
         /\ royalty_index = -1

\* C8's case: the operator ticked no minting strategy and the session ended
\* in the constraint violation
C8_Witness ==
    /\ mint_strategies = Some(<<>>)
    /\ pc = "panicked"
    /\ IsSome(schema.supply_policy)

\* C9: a session in which every prompt is answered and no constructor fails
\* has handed the finished schema to the external consumer, exactly once,
\* when it has ended.
C9_CompletedHandsOffSchema ==
    Completed => output = <<schema>>

\* C10: the schema starts empty, and a field is written only while it and
\* every later field of the order name, description, symbol, tags, url, NFT
\* fields, behaviours, supply policy, mint strategy, royalties, listings are
\* still unwritten and every earlier field that is not optional is written.
C10_ForwardOnlyOrder ==
    /\ schema = Schema_new
    /\ [][\A k \in 1..Len(SchemaFields) :
            schema'[SchemaFields[k]] # schema[SchemaFields[k]] =>
                /\ \A j \in k..Len(SchemaFields) :
                       schema[SchemaFields[j]] = Unset
                /\ \A j \in 1..(k - 1) :
                       SchemaFields[j] \notin {"tags", "url"} =>
                           schema[SchemaFields[j]] # Unset]_vars

\* C10's case: a completed session that wrote every field up to royalties,
\* the optional tags and url included
C10_Witness ==
    /\ Completed
    /\ \A k \in 1..(Len(SchemaFields) - 1) : IsSome(schema[SchemaFields[k]])

NumericPrompts == {"supply_limit", "royalty_fee", "royalty_commission", "listings"}
AfterNumericPrompt == {"mint", "listings", "admin"}

\* the text the last validator message names
RejectedText == Unwrap(err)[2]

\* the text is a decimal numeral of a non-negative integer (an optional "+",
\* then one or more digits)
IsNonNegIntText(s) ==
    LET body == IF s # <<>> /\ Head(s) = "+" THEN Tail(s) ELSE s
    IN body # <<>> /\ \A k \in 1..Len(body) : IsDigitChar(body[k])

\* the numeral's value is at most 2^64 - 1
FitsU64(s) ==
    LET body == IF s # <<>> /\ Head(s) = "+" THEN Tail(s) ELSE s
    IN U64Leq(StripZeros([k \in 1..Len(body) |-> DigitOf(body[k])]), U64_MAX)

\* C12, as the specification states it: the numeric validator passes a text
\* if and only if it is the numeral of a non-negative integer, and no text it
\* passed fails the parse that follows.
C12_PassesIffNonNegInt ==
    /\ pc # "parse_panicked"
    /\ (pc \in NumericPrompts /\ IsSome(err)) => ~IsNonNegIntText(RejectedText)
    /\ (pc \in AfterNumericPrompt /\ IsSome(input)) =>
           IsNonNegIntText(Unwrap(input))

\* C12, amended: the numeric validator passes a text if and only if it is
\* the numeral of a non-negative integer of at most 2^64 - 1 (a u64); the
\* numeral of a larger integer is rejected.  No text it passed fails the
\* parse that follows at the supply-limit, royalty-fee and listing-count
\* steps.
C12_PassesIffU64 ==
    /\ pc # "parse_panicked"
    /\ (pc \in NumericPrompts /\ IsSome(err)) =>
           ~(IsNonNegIntText(RejectedText) /\ FitsU64(RejectedText))
    /\ (pc \in AfterNumericPrompt /\ IsSome(input)) =>
           (IsNonNegIntText(Unwrap(input)) /\ FitsU64(Unwrap(input)))

\* C12's case: the numeral of 2^64 - 1 typed at the supply-limit prompt,
\* passed and parsed to the limit 2^64 - 1
C12_Witness ==
    /\ pc = "mint"
    /\ input = Some(U64MaxText)
    /\ limit = Some(U64_MAX)

\* C13: the administrator address and the receiver address the session
\* accepted are each 20 bytes long, and a text the address validator
\* rejected at either prompt is not 20 bytes long.
C13_AddressesAre20Bytes ==
    /\ pc \in {"receiver", "market", "done"} => ByteLen(admin_address) = 20
    /\ pc \in {"market", "done"} => ByteLen(receiver_address) = 20
    /\ (pc \in {"admin", "receiver"} /\ IsSome(err)) => ByteLen(RejectedText) # 20

\* C13's case: a text of ten two-byte characters accepted as the
\* administrator address, and the text of twenty two-byte characters
\* rejected at the receiver prompt
C13_Witness ==
    /\ pc = "receiver"
    /\ admin_address = Repeat(TwoByteChar, 10)
    /\ IsSome(err)
    /\ RejectedText = Repeat(TwoByteChar, 20)

\* a typed constructor was handed a value it rejects
FieldsFailed == IsSome(nft_field_indices) /\ ~Fields_new_from(nft_fields).ok
MintStrategyFailed ==
    IsSome(mint_strategies) /\ ~MintStrategy_new_from(Unwrap(mint_strategies)).ok

\* C14: a constructor constraint violation ends the session at once: the
\* session is in its panicked state with the failed field and every later
\* field unwritten and nothing handed off, and from the panicked state no
\* further step (prompt, commit or hand-off) is taken.
C14_ViolationAbortsSession ==
    /\ []((FieldsFailed \/ MintStrategyFailed) => pc = "panicked")
    /\ [](pc = "panicked" =>
            /\ output = <<>>
            /\ schema.royalties = Unset
            /\ schema.listings = <<>>
            /\ MintStrategyFailed => schema.mint_strategy = Unset
            /\ FieldsFailed => schema.fields = Unset)
    /\ [][pc # "panicked"]_vars

\* C14's case: the empty minting selection made nft::MintStrategy::new_from
\* fail after the earlier fields were committed, and the session is over
C14_Witness ==
    /\ pc = "panicked"
    /\ MintStrategyFailed
    /\ IsSome(schema.name)
    /\ IsSome(schema.fields)
    /\ schema.mint_strategy = Unset
    /\ output = <<>>

\* C15: a step that shows a validator failure leaves the session at the same
\* prompt with the schema and the values collected so far unchanged, and a
\* text that was parsed or kept as an address is one its validator passed.
C15_RejectedTextNeverCommitted ==
    /\ [][IsSome(err') =>
            /\ pc' = pc
            /\ schema' = schema
            /\ UNCHANGED <<limit, fee, listings, admin_address,
                           receiver_address, input>>]_vars
    /\ []((pc \in AfterNumericPrompt \cup {"parse_panicked"} /\ IsSome(input)) =>
            number_validator(Unwrap(input)) = None)
    /\ [](pc \in {"receiver", "market", "done"} =>
            address_validator(admin_address) = None)
    /\ [](pc \in {"market", "done"} =>
            address_validator(receiver_address) = None)

\* C15's case: the text "a" was rejected at the supply-limit prompt; the
\* session is still there and no limit or supply policy is set
C15_Witness ==
    /\ pc = "supply_limit"
    /\ IsSome(err)
    /\ RejectedText = <<"a">>
    /\ limit = None
    /\ schema.supply_policy = Unset

\* the Tag catalog, in its order
TagCatalog ==
    <<"Art", "ProfilePicture", "Collectible", "GameAsset", "TokenisedAsset",
      "Ticker", "DomainName", "Music", "Video", "Ticket", "License">>

\* C16: for a selection of tag indices, the strings handed to set_tags are
\* the Tag catalog entries at those indices, one for each index: as a set
\* they depend only on the set of indices, and no string occurs twice.
C16_TagsAreCatalogEntries ==
    IsSome(tag_indices) =>
        LET sel == Unwrap(tag_indices)
        IN /\ Len(tags) = Len(sel)
           /\ \A k \in 1..Len(sel) : tags[k] = TagCatalog[sel[k] + 1]
           /\ Range(tags) = {TagCatalog[ix + 1] : ix \in Range(sel)}
           /\ \A j, k \in 1..Len(tags) : j # k => tags[j] # tags[k]
           /\ schema.tags = Some({TagCatalog[ix + 1] : ix \in Range(sel)})

\* C16's case: the indices 2 and 0, in this order, mapped to "Collectible"
\* and "Art" and set as the tag set {"Art", "Collectible"}
C16_Witness ==
    /\ tag_indices = Some(<<2, 0>>)
    /\ tags = <<"Collectible", "Art">>
    /\ schema.tags = Some({"Art", "Collectible"})

\* C17: with the listing count N fixed, the market prompt shown after i
\* selections is numbered i + 1 <= N, every answer to it leads to the next
\* market prompt or to the end of the session, and the session ends after
\* exactly N selections.
C17_LoopAsksExactlyCount ==
    /\ [](pc = "market" =>
            /\ i < U64ToNat(listings)
            /\ prompt_no = i + 1)
    /\ [](pc = "done" =>
            /\ i = U64ToNat(listings)
            /\ prompt_no = U64ToNat(listings))
    /\ [][pc = "market" =>
            /\ pc' \in {"market", "done"}
            /\ i' = i + 1
            /\ listings' = listings]_vars

\* C17's case: a session with listing count 2 that ended after the market
\* prompts number 1 and number 2
C17_Witness ==
    /\ pc = "done"
    /\ listings = <<2>>
    /\ i = 2
    /\ prompt_no = 2

\* C18: the field set committed to schema.nft.fields contains "tags" if and
\* only if the operator answered yes to the tags confirmation, whatever tags
\* were then ticked (none included); its other members are the ticked
\* entries of the Field catalog {display, url, attributes}, which has no
\* "tags".
C18_TagsFieldIffConfirmed ==
    /\ "tags" \notin Range(FIELD_OPTIONS)
    /\ IsSome(schema.fields) =>
         /\ "tags" \in Unwrap(schema.fields) <=> has_tags
         /\ has_tags <=> IsSome(schema.tags)
         /\ Unwrap(schema.fields) \ {"tags"} =
                {<<"display", "url", "attributes">>[ix + 1] :
                    ix \in Range(Unwrap(nft_field_indices))}

\* C18's case: tags confirmed, no tag ticked, only "url" ticked as NFT
\* field, and the committed set is {"url", "tags"}
C18_Witness ==
    /\ has_tags
    /\ tag_indices = Some(<<>>)
    /\ schema.tags = Some({})
    /\ nft_field_indices = Some(<<1>>)
    /\ schema.fields = Some({"url", "tags"})

\* C19: the administrator prompt is entered only from the listing-count
\* prompt and left only for the receiver prompt, the receiver prompt is
\* entered only from the administrator prompt and left only for the first
\* market prompt or the end of the session, neither is entered again later,
\* and a completed session has both addresses, also with listing count 0.
C19_AddressesAskedOnceBeforeLoop ==
    /\ [][/\ (pc' = "admin" /\ pc # "admin") => pc = "listings"
          /\ (pc = "admin" /\ pc' # "admin") => pc' = "receiver"
          /\ (pc' = "receiver" /\ pc # "receiver") => pc = "admin"
          /\ (pc = "receiver" /\ pc' # "receiver") =>
                 (pc' \in {"market", "done"} /\ i' = 0)
          /\ (pc = "listings" /\ pc' # "listings") => pc' = "admin"
          /\ pc = "market" => pc' \in {"market", "done"}]_vars
    /\ [](pc \in {"market", "done"} =>
            /\ ByteLen(admin_address) = 20
            /\ ByteLen(receiver_address) = 20
            /\ input = None \/ input = Some(receiver_address))

\* C19's case: a session with listing count 0 that ended with both addresses
\* collected and no market prompt shown
C19_Witness ==
    /\ pc = "done"
    /\ listings = <<0>>
    /\ prompt_no = 0
    /\ admin_address = Repeat("a", 20)
    /\ receiver_address = Repeat(TwoByteChar, 10)

====
